---- MODULE Spec2Model ----
(***************************************************************************)
(* Model of the intelligent_game_decision_engine tools and crew hooks:     *)
(*   tools/game_action_executor_tool.py  GameActionExecutorTool._run       *)
(*   tools/music_generator_tool.py       MusicGeneratorTool._run           *)
(*   crew.py  inject_internal_inputs / capture_strudel_output              *)
(* Python values are tagged records, strings are TLA+ strings, and the     *)
(* network is an input of each invocation: the POST either answers with a  *)
(* status code and a body text or raises an exception of some class.       *)
(***************************************************************************)
EXTENDS Integers, Sequences, FiniteSets, TLC

(***************************************************************************)
(* Python / JSON values.  Every value is a record with the same fields so  *)
(* that any two values can be compared:                                    *)
(*   t  the Python type name, n the number (int, bool as 0/1),             *)
(*   s  the text of a str, a the items of a list,                          *)
(*   o  the items of a dict as <<key, value>> pairs in insertion order.    *)
(***************************************************************************)
None == [t |-> "NoneType", n |-> 0, s |-> "", a |-> <<>>, o |-> <<>>]

PyInt(i) == [t |-> "int", n |-> i, s |-> "", a |-> <<>>, o |-> <<>>]

PyBool(b) == [t |-> "bool", n |-> IF b THEN 1 ELSE 0, s |-> "", a |-> <<>>, o |-> <<>>]

PyStrVal(x) == [t |-> "str", n |-> 0, s |-> x, a |-> <<>>, o |-> <<>>]

PyList(items) == [t |-> "list", n |-> 0, s |-> "", a |-> items, o |-> <<>>]

PyDict(pairs) == [t |-> "dict", n |-> 0, s |-> "", a |-> <<>>, o |-> pairs]

\* isinstance(v, str)
IsStr(v) == v.t = "str"

\* bool(v): the truth value Python's `if v` / `not v` uses
Truthy(v) ==
    CASE v.t = "NoneType" -> FALSE
      [] v.t = "bool" -> v.n = 1
      [] v.t = "int" -> v.n /= 0
      [] v.t = "str" -> v.s /= ""
      [] v.t = "list" -> v.a /= <<>>
      [] v.t = "dict" -> v.o /= <<>>

\* key in d, for a dict d
HasKey(d, key) == \E i \in 1..Len(d.o) : d.o[i][1] = key

\* d[key], for a dict d that has the key
Lookup(d, key) == d.o[CHOOSE i \in 1..Len(d.o) : d.o[i][1] = key][2]

\* sub in text, for two str
Contains(text, sub) ==
    \E i \in 1..(Len(text) - Len(sub) + 1) : SubSeq(text, i, i + Len(sub) - 1) = sub

\* text.startswith(prefix)
StartsWith(text, prefix) ==
    Len(text) >= Len(prefix) /\ SubSeq(text, 1, Len(prefix)) = prefix

RECURSIVE PyRepr(_)
RECURSIVE ReprItems(_, _)
RECURSIVE ReprPairs(_, _)
\* repr(v) for the values above (str without quote characters inside)
PyRepr(v) ==
    CASE v.t = "NoneType" -> "None"
      [] v.t = "bool" -> IF v.n = 1 THEN "True" ELSE "False"
      [] v.t = "int" -> ToString(v.n)
      [] v.t = "str" -> "'" \o v.s \o "'"
      [] v.t = "list" -> "[" \o ReprItems(v.a, 1) \o "]"
      [] v.t = "dict" -> "{" \o ReprPairs(v.o, 1) \o "}"

ReprItems(items, i) ==
    IF i > Len(items) THEN ""
    ELSE PyRepr(items[i]) \o (IF i < Len(items) THEN ", " ELSE "") \o ReprItems(items, i + 1)

ReprPairs(pairs, i) ==
    IF i > Len(pairs) THEN ""
    ELSE "'" \o pairs[i][1] \o "': " \o PyRepr(pairs[i][2])
         \o (IF i < Len(pairs) THEN ", " ELSE "") \o ReprPairs(pairs, i + 1)

\* str(v), also what an f-string {v} formats: a str is itself, the rest is repr
PyStr(v) == IF v.t = "str" THEN v.s ELSE PyRepr(v)

(***************************************************************************)
(* json.loads on the texts the model uses as payloads, response bodies and *)
(* crew outputs: the parsed value, or the JSONDecodeError detail.          *)
(***************************************************************************)
Parsed(v) == [ok |-> TRUE, val |-> v, detail |-> ""]

DecodeError(d) == [ok |-> FALSE, val |-> None, detail |-> d]

JsonDocs ==
    << <<"{\"action\": \"move\"}", Parsed(PyDict(<< <<"action", PyStrVal("move")>> >>))>>,
       <<"{\"action\": \"move\"", DecodeError("Expecting ',' delimiter: line 1 column 18 (char 17)")>>,
       <<"move north", DecodeError("Expecting value: line 1 column 1 (char 0)")>>,
       <<"{\"message\": \"not found\"}", Parsed(PyDict(<< <<"message", PyStrVal("not found")>> >>))>>,
       <<"{\"message\": \"quota\", \"error\": \"denied\"}",
         Parsed(PyDict(<< <<"message", PyStrVal("quota")>>, <<"error", PyStrVal("denied")>> >>))>>,
       <<"{\"error\": \"denied\"}", Parsed(PyDict(<< <<"error", PyStrVal("denied")>> >>))>>,
       <<"{\"ok\": true}", Parsed(PyDict(<< <<"ok", PyBool(TRUE)>> >>))>>,
       <<"{\"message\": null}", Parsed(PyDict(<< <<"message", None>> >>))>>,
       <<"down", DecodeError("Expecting value: line 1 column 1 (char 0)")>>,
       <<"5", Parsed(PyInt(5))>>,
       <<"null", Parsed(None)>>,
       <<"\"error message\"", Parsed(PyStrVal("error message"))>>,
       <<"[\"message\"]", Parsed(PyList(<<PyStrVal("message")>>))>>,
       <<"[1]", Parsed(PyList(<<PyInt(1)>>))>>,
       <<"{\"tool_invocation\": {\"tool_response\": \"note c\"}}",
         Parsed(PyDict(<< <<"tool_invocation",
                PyDict(<< <<"tool_response", PyStrVal("note c")>> >>)>> >>))>>,
       <<"{\"tool_invocation\": {\"tool_response\": \"say \\\"hi\\\"\"}}",
         Parsed(PyDict(<< <<"tool_invocation",
                PyDict(<< <<"tool_response", PyStrVal("say \"hi\"")>> >>)>> >>))>>,
       <<"{\"tool_invocation\": {\"tool_response\": \"\"}}",
         Parsed(PyDict(<< <<"tool_invocation",
                PyDict(<< <<"tool_response", PyStrVal("")>> >>)>> >>))>>,
       <<"{\"tool_invocation\": {\"tool_response\": {\"code\": \"bd\"}}}",
         Parsed(PyDict(<< <<"tool_invocation",
                PyDict(<< <<"tool_response",
                       PyDict(<< <<"code", PyStrVal("bd")>> >>)>> >>)>> >>))>>,
       <<"{\"tool_invocation\": {\"tool_response\": 0}}",
         Parsed(PyDict(<< <<"tool_invocation",
                PyDict(<< <<"tool_response", PyInt(0)>> >>)>> >>))>>,
       <<"{\"tool_invocation\": {\"tool_response\": [7]}}",
         Parsed(PyDict(<< <<"tool_invocation",
                PyDict(<< <<"tool_response", PyList(<<PyInt(7)>>)>> >>)>> >>))>>,
       <<"{\"tool_invocation\": {}}", Parsed(PyDict(<< <<"tool_invocation", PyDict(<<>>)>> >>))>>,
       <<"{\"tool_invocation\": \"x\"}", Parsed(PyDict(<< <<"tool_invocation", PyStrVal("x")>> >>))>>,
       <<"{\"tool_invocation\": null}", Parsed(PyDict(<< <<"tool_invocation", None>> >>))>>,
       <<"{\"final\": \"done\"}", Parsed(PyDict(<< <<"final", PyStrVal("done")>> >>))>>,
       <<"not json", DecodeError("Expecting value: line 1 column 1 (char 0)")>>,
       <<"", DecodeError("Expecting value: line 1 column 1 (char 0)")>> >>

\* json.loads(text): the parsed value, or a raised JSONDecodeError with its detail
JsonLoads(text) ==
    JsonDocs[CHOOSE i \in 1..Len(JsonDocs) : JsonDocs[i][1] = text][2]

RECURSIVE EscapeRange(_, _, _)
\* characters lo..hi of text as json.dumps writes them inside a string
\* literal: " and \ are escaped (halving keeps the evaluation shallow)
EscapeRange(text, lo, hi) ==
    IF lo > hi THEN ""
    ELSE IF lo = hi
      THEN LET c == SubSeq(text, lo, lo)
           IN IF c = "\"" THEN "\\\"" ELSE IF c = "\\" THEN "\\\\" ELSE c
    ELSE LET mid == (lo + hi) \div 2
         IN EscapeRange(text, lo, mid) \o EscapeRange(text, mid + 1, hi)

\* the body of the JSON string literal json.dumps writes for a str
JsonEscape(text) == EscapeRange(text, 1, Len(text))

RECURSIVE JsonDumpsItems(_, _)
JsonDumpsItems(strs, i) ==
    IF i > Len(strs) THEN ""
    ELSE "\"" \o JsonEscape(strs[i]) \o "\""
         \o (IF i < Len(strs) THEN ", " ELSE "") \o JsonDumpsItems(strs, i + 1)

\* json.dumps(list of str)
JsonDumpsStrList(strs) == "[" \o JsonDumpsItems(strs, 1) \o "]"

(***************************************************************************)
(* Exceptions.  The classes requests.post and the tool body can raise,     *)
(* with their direct base classes; every class derives from Exception.     *)
(***************************************************************************)
Bases(cls) ==
    CASE cls = "ConnectTimeout" -> {"ConnectionError", "Timeout"}
      [] cls = "ReadTimeout" -> {"Timeout"}
      [] cls = "ConnectionError" -> {"RequestException"}
      [] cls = "Timeout" -> {"RequestException"}
      [] cls = "TooManyRedirects" -> {"RequestException"}
      [] cls = "HTTPError" -> {"RequestException"}
      [] cls = "RequestException" -> {"Exception"}
      [] cls = "TypeError" -> {"Exception"}
      [] cls = "RuntimeError" -> {"Exception"}
      [] OTHER -> {}

RECURSIVE IsInstance(_, _)
\* isinstance(e, cls) for an exception e of class exc
IsInstance(exc, cls) ==
    exc = cls \/ \E b \in Bases(exc) : IsInstance(b, cls)

\* the outcome of one requests.post call
Responds(code, text) ==
    [raises |-> FALSE, exc |-> "", detail |-> "", status_code |-> code, text |-> text]

Raises(cls, d) ==
    [raises |-> TRUE, exc |-> cls, detail |-> d, status_code |-> 0, text |-> ""]

(***************************************************************************)
(* GameActionExecutorTool._run                                             *)
(***************************************************************************)
DefaultTimeout == 30

DefaultHeaders == PyDict(<< <<"Content-Type", PyStrVal("application/json")>> >>)

\* if headers is None: headers = {"Content-Type": "application/json"}
ResolveHeaders(h) == IF h = None THEN DefaultHeaders ELSE h

\* if timeout is None: timeout = 30
ResolveTimeout(tmo) == IF tmo = None THEN PyInt(DefaultTimeout) ELSE tmo

\* fault variant of InitialStructure: success starts out true
InitialStructure_SuccessTrue ==
    [success |-> TRUE, response_data |-> None, error_message |-> None, status_code |-> None]

\* response_structure as initialised
InitialStructure ==
    [success |-> FALSE, response_data |-> None, error_message |-> None, status_code |-> None]

\* how the try block ends: a return of json.dumps(rs), or an exception raised
\* with response_structure as mutated so far; posts are the requests issued
Returned(rs, ps) == [exit |-> "return", exc |-> "", detail |-> "", rs |-> rs, posts |-> ps]

Raised(cls, d, rs, ps) == [exit |-> "raise", exc |-> cls, detail |-> d, rs |-> rs, posts |-> ps]

\* fault variant of EndpointInvalid: only the type is tested, "" passes
EndpointInvalid_TypeOnly(endpoint) == ~IsStr(endpoint)

\* not api_endpoint or not isinstance(api_endpoint, str)
EndpointInvalid(endpoint) == ~Truthy(endpoint) \/ ~IsStr(endpoint)

\* key in v
PyIn(key, v) ==
    CASE v.t = "dict" -> [raises |-> FALSE, val |-> HasKey(v, key), detail |-> ""]
      [] v.t = "list" -> [raises |-> FALSE, val |-> \E i \in 1..Len(v.a) : v.a[i] = PyStrVal(key),
                          detail |-> ""]
      [] v.t = "str" -> [raises |-> FALSE, val |-> Contains(v.s, key), detail |-> ""]
      [] OTHER -> [raises |-> TRUE, val |-> FALSE,
                   detail |-> "argument of type '" \o v.t \o "' is not iterable"]

\* v[key] for a str key
PyGetItem(v, key) ==
    CASE v.t = "dict" -> [raises |-> FALSE, val |-> Lookup(v, key), detail |-> ""]
      [] v.t = "list" -> [raises |-> TRUE, val |-> None,
                          detail |-> "list indices must be integers or slices, not str"]
      [] OTHER -> [raises |-> TRUE, val |-> None,
                   detail |-> "string indices must be integers, not 'str'"]

\* error_message += ": " + str(v)
AppendDetail(rs, text) ==
    [rs EXCEPT !.error_message = PyStrVal(rs.error_message.s \o ": " \o text)]

\* the 4xx and the 5xx branch, which differ only in the label
ErrorBranch(label, rs, response, ps) ==
    LET rs1 == [rs EXCEPT !.error_message =
                   PyStrVal(label \o " (HTTP " \o ToString(response.status_code) \o ")")]
        body == JsonLoads(response.text)
        error_details == body.val
        rs2 == [rs1 EXCEPT !.response_data = error_details]
        hasMessage == PyIn("message", error_details)
        hasError == PyIn("error", error_details)
        field(key) ==
            LET item == PyGetItem(error_details, key)
            IN IF item.raises THEN Raised("TypeError", item.detail, rs2, ps)
               ELSE Returned(AppendDetail(rs2, PyStr(item.val)), ps)
    IN IF ~body.ok THEN Returned(AppendDetail(rs1, response.text), ps)
       ELSE IF hasMessage.raises THEN Raised("TypeError", hasMessage.detail, rs2, ps)
       ELSE IF hasMessage.val THEN field("message")
       ELSE IF hasError.val THEN field("error")
       ELSE Returned(rs2, ps)

\* the classification of a received response by status-code range
ClassifyResponse(rs, response, ps) ==
    LET code == response.status_code
        rs1 == [rs EXCEPT !.status_code = PyInt(code)]
        body == JsonLoads(response.text)
        data == IF body.ok THEN body.val ELSE PyStrVal(response.text)
    IN IF 200 <= code /\ code <= 299
         THEN Returned([rs1 EXCEPT !.success = TRUE, !.response_data = data], ps)
       ELSE IF 400 <= code /\ code <= 499
         THEN ErrorBranch("Client error", rs1, response, ps)
       ELSE IF 500 <= code /\ code <= 599
         THEN ErrorBranch("Server error", rs1, response, ps)
       ELSE Returned([rs1 EXCEPT
                !.error_message = PyStrVal("Unexpected HTTP status code: " \o ToString(code)),
                !.response_data = data], ps)

\* fault variant of Post: the request is sent a second time
Post_Resend(request) == <<request, request>>

\* the requests that the requests.post call of the try block issues
Post(request) == <<request>>

\* the body of the try statement: validation, the POST, the classification
TryBlock(endpoint, payload, hdrs, tmo, outcome) ==
    LET rs == InitialStructure
        request == [url |-> endpoint, json |-> JsonLoads(payload.s).val,
                    headers |-> hdrs, timeout |-> tmo]
    IN IF EndpointInvalid(endpoint)
         THEN Returned([rs EXCEPT !.error_message = PyStrVal("Invalid API endpoint provided")], <<>>)
       ELSE IF ~IsStr(payload)
         THEN Returned([rs EXCEPT !.error_message =
                           PyStrVal("Action payload must be a JSON string")], <<>>)
       ELSE IF ~JsonLoads(payload.s).ok
         THEN Returned([rs EXCEPT !.error_message =
                           PyStrVal("Invalid JSON in action_payload: "
                                    \o JsonLoads(payload.s).detail)], <<>>)
       ELSE IF outcome.raises
         THEN Raised(outcome.exc, outcome.detail, rs, Post(request))
       ELSE ClassifyResponse(rs, outcome, Post(request))

\* fault variant of Handler: the final `except Exception` clause is missing
Handler_NoCatchAll(exc) ==
    IF IsInstance(exc, "ConnectionError") THEN "ConnectionError"
    ELSE IF IsInstance(exc, "Timeout") THEN "Timeout"
    ELSE IF IsInstance(exc, "RequestException") THEN "RequestException"
    ELSE "propagate"

\* the except clause that catches an exception of class exc: the first, in
\* source order, whose class the exception is an instance of
Handler(exc) ==
    IF IsInstance(exc, "ConnectionError") THEN "ConnectionError"
    ELSE IF IsInstance(exc, "Timeout") THEN "Timeout"
    ELSE IF IsInstance(exc, "RequestException") THEN "RequestException"
    ELSE IF IsInstance(exc, "Exception") THEN "Exception"
    ELSE "propagate"

\* the error_message each except clause writes
HandlerMessage(handler, endpoint, tmo, detail) ==
    CASE handler = "ConnectionError" ->
            "Connection error: Unable to connect to " \o PyStr(endpoint) \o ". " \o detail
      [] handler = "Timeout" ->
            "Request timeout: The request to " \o PyStr(endpoint) \o " timed out after "
            \o PyStr(tmo) \o " seconds. " \o detail
      [] handler = "RequestException" -> "Request error: " \o detail
      [] OTHER -> "Unexpected error: " \o detail

\* the whole of _run: what the caller gets and the requests that were issued
GameActionExecutorTool_run(endpoint, payload, hdrs0, tmo0, outcome) ==
    LET hdrs == ResolveHeaders(hdrs0)
        tmo == ResolveTimeout(tmo0)
        try == TryBlock(endpoint, payload, hdrs, tmo, outcome)
        handler == Handler(try.exc)
    IN IF try.exit = "return"
         THEN [state |-> "returned", exc |-> "", value |-> try.rs, posts |-> try.posts]
       ELSE IF handler = "propagate"
         THEN [state |-> "raised", exc |-> try.exc, value |-> try.rs, posts |-> try.posts]
       ELSE [state |-> "returned", exc |-> "",
             value |-> [try.rs EXCEPT !.error_message =
                           PyStrVal(HandlerMessage(handler, endpoint, tmo, try.detail))],
             posts |-> try.posts]

(***************************************************************************)
(* MusicGeneratorTool._run                                                 *)
(***************************************************************************)
GAME_DESCRIPTION == "office simulator"

MusicUrl == "https://us-central1-llama-hack.cloudfunctions.net/generate-music"

MusicTimeout == 60

\* the reason phrase of a status line
Reason(code) ==
    CASE code = 400 -> "Bad Request"
      [] code = 404 -> "Not Found"
      [] code = 500 -> "Internal Server Error"
      [] code = 503 -> "Service Unavailable"
      [] OTHER -> ""

\* response.raise_for_status(): an HTTPError for a 4xx or 5xx status, else nothing
RaiseForStatus(response) ==
    LET code == response.status_code
        tail == Reason(code) \o " for url: " \o MusicUrl
    IN IF 400 <= code /\ code < 500
         THEN [raises |-> TRUE, exc |-> "HTTPError",
               detail |-> ToString(code) \o " Client Error: " \o tail]
       ELSE IF 500 <= code /\ code < 600
         THEN [raises |-> TRUE, exc |-> "HTTPError",
               detail |-> ToString(code) \o " Server Error: " \o tail]
       ELSE [raises |-> FALSE, exc |-> "", detail |-> ""]

\* json.dumps({"error": detail})
JsonDumpsError(detail) == "{\"error\": \"" \o JsonEscape(detail) \o "\"}"

\* fault variant of MusicCatches: only connection failures and timeouts are caught
MusicCatches_TransportOnly(exc) ==
    IsInstance(exc, "ConnectionError") \/ IsInstance(exc, "Timeout")

\* the except clause of the music tool: only RequestException is caught
MusicCatches(exc) == IsInstance(exc, "RequestException")

\* the whole of _run: what the caller gets and the requests that were issued
MusicGeneratorTool_run(state, outcome) ==
    LET request == [url |-> MusicUrl,
                    json |-> PyDict(<< <<"game_description", PyStrVal(GAME_DESCRIPTION)>>,
                                       <<"game_state", PyStrVal(state)>> >>),
                    headers |-> DefaultHeaders, timeout |-> PyInt(MusicTimeout)]
        status == RaiseForStatus(outcome)
        raised == IF outcome.raises THEN [raises |-> TRUE, exc |-> outcome.exc, detail |-> outcome.detail]
                  ELSE status
    IN IF ~raised.raises
         THEN [state |-> "returned", exc |-> "", value |-> outcome.text, posts |-> <<request>>]
       ELSE IF MusicCatches(raised.exc)
         THEN [state |-> "returned", exc |-> "", value |-> JsonDumpsError(raised.detail),
               posts |-> <<request>>]
       ELSE [state |-> "raised", exc |-> raised.exc, value |-> "", posts |-> <<request>>]

(***************************************************************************)
(* IntelligentGameDecisionEngineCrew: the kickoff hooks                    *)
(***************************************************************************)
CREW_GAME_DESCRIPTION == "first person shooter"

\* d[key] = val on a dict d: replaces the value of an existing key, else appends
DictSet(d, key, val) ==
    IF HasKey(d, key)
      THEN PyDict([i \in 1..Len(d.o) |-> IF d.o[i][1] = key THEN <<key, val>> ELSE d.o[i]])
      ELSE PyDict(Append(d.o, <<key, val>>))

\* d.get(key, default): AttributeError when d has no get method
PyGet(d, key, default) ==
    IF d.t /= "dict"
      THEN [raises |-> TRUE, exc |-> "AttributeError", val |-> None]
    ELSE [raises |-> FALSE, exc |-> "",
          val |-> IF HasKey(d, key) THEN Lookup(d, key) ELSE default]

\* inject_internal_inputs: the inputs dict it returns
InjectInternalInputs(history, inp) ==
    DictSet(DictSet(inp, "game_description", PyStrVal(CREW_GAME_DESCRIPTION)),
            "current_strudel_code", PyStrVal(JsonDumpsStrList(history)))

\* fault variant of CaptureStrudelOutput: tool_response is appended whenever the
\* key is present, without the truth test
CaptureStrudelOutput_NoTruthTest(history, raw) ==
    LET output == JsonLoads(raw)
        invocation == PyGet(output.val, "tool_invocation", PyDict(<<>>))
        tool_response == PyGet(invocation.val, "tool_response", None)
        unchanged == [history |-> history, state |-> "returned"]
    IN IF ~output.ok THEN unchanged
       ELSE IF invocation.raises THEN unchanged
       ELSE IF tool_response.raises THEN unchanged
       ELSE IF HasKey(invocation.val, "tool_response")
         THEN [history |-> Append(history, PyStr(tool_response.val)), state |-> "returned"]
       ELSE unchanged

\* capture_strudel_output: the history after the call and how the call ends
CaptureStrudelOutput(history, raw) ==
    LET output == JsonLoads(raw)
        invocation == PyGet(output.val, "tool_invocation", PyDict(<<>>))
        tool_response == PyGet(invocation.val, "tool_response", None)
        unchanged == [history |-> history, state |-> "returned"]
    IN IF ~output.ok THEN unchanged
       ELSE IF invocation.raises THEN unchanged
       ELSE IF tool_response.raises THEN unchanged
       ELSE IF Truthy(tool_response.val)
         THEN [history |-> Append(history, PyStr(tool_response.val)), state |-> "returned"]
       ELSE unchanged

(***************************************************************************)
(* Inputs of the invocations                                               *)
(***************************************************************************)
MaxHistory == 3

Endpoints == {PyStrVal("http://game.local/act"), PyStrVal(""), None, PyInt(7)}

Payloads == {PyStrVal("{\"action\": \"move\"}"), PyStrVal("{\"action\": \"move\""),
             PyStrVal("move north"), PyDict(<< <<"action", PyStrVal("move")>> >>)}

HeaderArgs == {None, PyDict(<< <<"X-Token", PyStrVal("abc")>> >>)}

TimeoutArgs == {None, PyInt(5)}

StatusCodes == {199, 200, 204, 299, 300, 302, 399, 400, 404, 499, 500, 503, 599, 600}

BodyTexts == {"{\"message\": \"not found\"}", "{\"message\": \"quota\", \"error\": \"denied\"}",
              "{\"error\": \"denied\"}", "{\"ok\": true}", "{\"message\": null}", "down", "",
              "5", "null", "\"error message\"", "[\"message\"]", "[1]"}

PostOutcomes ==
    {Responds(c, b) : c \in StatusCodes, b \in BodyTexts}
    \cup {Raises("ConnectionError", "Connection refused"),
          Raises("ConnectTimeout", "Connection to game.local timed out. (connect timeout=5)"),
          Raises("ReadTimeout", "Read timed out. (read timeout=5)"),
          Raises("Timeout", "timed out"),
          Raises("TooManyRedirects", "Exceeded 30 redirects."),
          Raises("RequestException", "request failed"),
          Raises("RuntimeError", "boom")}

GameStates == {"Player enters a dimly lit dungeon", ""}

CallerInputs == {PyDict(<<>>), PyDict(<< <<"game_state", PyStrVal("boss fight")>> >>),
                 PyDict(<< <<"current_strudel_code", PyStrVal("stale")>> >>)}

RawOutputs ==
    {"{\"tool_invocation\": {\"tool_response\": \"note c\"}}",
     "{\"tool_invocation\": {\"tool_response\": \"say \\\"hi\\\"\"}}",
     "{\"tool_invocation\": {\"tool_response\": {\"code\": \"bd\"}}}",
     "{\"tool_invocation\": {\"tool_response\": \"\"}}",
     "{\"tool_invocation\": {\"tool_response\": 0}}",
     "{\"tool_invocation\": {}}", "{\"tool_invocation\": \"x\"}", "{\"tool_invocation\": null}",
     "{\"final\": \"done\"}", "[1]", "5", "not json", ""}

(***************************************************************************)
(* State                                                                   *)
(***************************************************************************)
VARIABLES
    api_endpoint, action_payload, headers, timeout, \* arguments of the action tool call
    post_outcome,      \* what requests.post does when the action tool calls it
    action_result,     \* the end of the action tool call
    game_state,        \* argument of the music tool call
    music_outcome,     \* what requests.post does when the music tool calls it
    music_result,      \* the end of the music tool call
    strudel_history,   \* IntelligentGameDecisionEngineCrew._strudel_history
    inputs,            \* the inputs dict of the last kickoff, after the before hook
    crew_call          \* the last hook that ran, the raw output it saw, how it ended

vars == <<api_endpoint, action_payload, headers, timeout, post_outcome, action_result,
          game_state, music_outcome, music_result, strudel_history, inputs, crew_call>>

actionVars == <<api_endpoint, action_payload, headers, timeout, post_outcome, action_result>>

musicVars == <<game_state, music_outcome, music_result>>

crewVars == <<strudel_history, inputs, crew_call>>

Pending == [state |-> "pending", exc |-> "", value |-> InitialStructure, posts |-> <<>>]

MusicPending == [state |-> "pending", exc |-> "", value |-> "", posts |-> <<>>]

ActionIdle ==
    /\ api_endpoint = None /\ action_payload = None /\ headers = None /\ timeout = None
    /\ post_outcome = Raises("", "")
    /\ action_result = Pending

MusicIdle ==
    /\ game_state = ""
    /\ music_outcome = Raises("", "")
    /\ music_result = MusicPending

CrewInit ==
    /\ strudel_history = <<>>
    /\ inputs = PyDict(<<>>)
    /\ crew_call = [op |-> "none", raw |-> "", state |-> "none"]

\* an action tool call about to run, with its arguments and its network
InitAction ==
    /\ api_endpoint \in Endpoints
    /\ action_payload \in Payloads
    /\ headers \in HeaderArgs
    /\ timeout \in TimeoutArgs
    /\ post_outcome \in PostOutcomes
    /\ action_result = Pending
    /\ MusicIdle /\ CrewInit

\* a music tool call about to run
InitMusic ==
    /\ game_state \in GameStates
    /\ music_outcome \in PostOutcomes
    /\ music_result = MusicPending
    /\ ActionIdle /\ CrewInit

\* a fresh crew class, no tool call under way
InitCrew == ActionIdle /\ MusicIdle /\ CrewInit

(***************************************************************************)
(* Actions                                                                 *)
(***************************************************************************)
RunGameAction ==
    /\ action_result.state = "pending"
    /\ action_result' = GameActionExecutorTool_run(api_endpoint, action_payload, headers,
                                                   timeout, post_outcome)
    /\ UNCHANGED <<api_endpoint, action_payload, headers, timeout, post_outcome>>
    /\ UNCHANGED <<musicVars, crewVars>>

RunMusic ==
    /\ music_result.state = "pending"
    /\ music_result' = MusicGeneratorTool_run(game_state, music_outcome)
    /\ UNCHANGED <<game_state, music_outcome>>
    /\ UNCHANGED <<actionVars, crewVars>>

InjectStep ==
    /\ \E inp \in CallerInputs :
          inputs' = InjectInternalInputs(strudel_history, inp)
    /\ crew_call' = [op |-> "inject", raw |-> "", state |-> "returned"]
    /\ UNCHANGED strudel_history
    /\ UNCHANGED <<actionVars, musicVars>>

CaptureStep ==
    /\ Len(strudel_history) < MaxHistory
    /\ \E raw \in RawOutputs :
          LET end == CaptureStrudelOutput(strudel_history, raw)
          IN /\ strudel_history' = end.history
             /\ crew_call' = [op |-> "capture", raw |-> raw, state |-> end.state]
    /\ UNCHANGED inputs
    /\ UNCHANGED <<actionVars, musicVars>>

NextAction == RunGameAction

NextMusic == RunMusic

NextCrew == InjectStep \/ CaptureStep

SpecAction == InitAction /\ [][NextAction]_vars

SpecMusic == InitMusic /\ [][NextMusic]_vars

SpecCrew == InitCrew /\ [][NextCrew]_vars

(***************************************************************************)
(* Properties of GameActionExecutorTool._run, under SpecAction             *)
(***************************************************************************)
ActionDone == action_result.state /= "pending"

ResultFields == {"success", "response_data", "error_message", "status_code"}

\* the endpoint is a non-empty string
EndpointOk == api_endpoint.t = "str" /\ api_endpoint.s /= ""

\* the payload is a string that parses as JSON
PayloadOk == action_payload.t = "str" /\ JsonLoads(action_payload.s).ok

\* validation passed and the POST was answered with a response
Responded == EndpointOk /\ PayloadOk /\ ~post_outcome.raises

\* validation passed and the POST raised
PostFailed == EndpointOk /\ PayloadOk /\ post_outcome.raises

ErrorText == action_result.value.error_message.s

\* C1: whatever the inputs and whatever the POST does (any status, any body,
\* any raised exception), the call ends by returning the JSON encoding of a
\* structure with exactly the fields success, response_data, error_message
\* and status_code; it never ends by raising.
C1_NeverRaises ==
    ActionDone =>
        /\ action_result.state = "returned"
        /\ DOMAIN action_result.value = ResultFields

\* the call ran into an exception no request-level handler covers and returned
C1_Witness ==
    /\ ActionDone /\ PostFailed
    /\ post_outcome.exc = "RuntimeError"
    /\ action_result.state = "returned"
    /\ StartsWith(ErrorText, "Unexpected error: boom")

\* C2: validation happens before any network call.  An empty or non-string
\* endpoint gives success=false, status_code=null and exactly the message
\* "Invalid API endpoint provided"; a valid endpoint with a payload that fails
\* JSON parsing gives success=false, status_code=null and a message beginning
\* "Invalid JSON in action_payload: "; in both cases no POST is issued.
C2_ValidationBeforePost ==
    ActionDone =>
        /\ ~EndpointOk =>
              /\ action_result.value.success = FALSE
              /\ action_result.value.status_code = None
              /\ action_result.value.error_message = PyStrVal("Invalid API endpoint provided")
              /\ action_result.posts = <<>>
        /\ (EndpointOk /\ action_payload.t = "str" /\ ~JsonLoads(action_payload.s).ok) =>
              /\ action_result.value.success = FALSE
              /\ action_result.value.status_code = None
              /\ StartsWith(ErrorText, "Invalid JSON in action_payload: ")
              /\ action_result.posts = <<>>

\* a call with a good endpoint and an unparseable payload, on a network that
\* would have answered 200, ended without a POST
C2_Witness ==
    /\ ActionDone /\ EndpointOk
    /\ action_payload = PyStrVal("move north")
    /\ ~post_outcome.raises /\ post_outcome.status_code = 200
    /\ action_result.posts = <<>>
    /\ ErrorText = "Invalid JSON in action_payload: Expecting value: line 1 column 1 (char 0)"

\* C3: for every response with status code c (valid endpoint and payload, the
\* body any JSON value or non-JSON text) the result has status_code = c and is
\* classified by range: 200-299 success=true and no error message; 400-499
\* success=false and a message beginning "Client error (HTTP c)"; 500-599
\* success=false and a message beginning "Server error (HTTP c)"; any other
\* code success=false and exactly "Unexpected HTTP status code: c".
C3_ClassifiedByRange ==
    (ActionDone /\ Responded) =>
        LET c == post_outcome.status_code
            r == action_result.value
        IN /\ r.status_code = PyInt(c)
           /\ (200 <= c /\ c <= 299) => (r.success = TRUE /\ r.error_message = None)
           /\ (400 <= c /\ c <= 499) =>
                 /\ r.success = FALSE
                 /\ StartsWith(r.error_message.s, "Client error (HTTP " \o ToString(c) \o ")")
           /\ (500 <= c /\ c <= 599) =>
                 /\ r.success = FALSE
                 /\ StartsWith(r.error_message.s, "Server error (HTTP " \o ToString(c) \o ")")
           /\ (c < 200 \/ (299 < c /\ c < 400) \/ c > 599) =>
                 /\ r.success = FALSE
                 /\ r.error_message = PyStrVal("Unexpected HTTP status code: " \o ToString(c))

\* the suffix the appension rule gives for a body text
C4_Suffix(text) ==
    LET body == JsonLoads(text)
        isObject == body.ok /\ body.val.t = "dict"
    IN IF isObject /\ HasKey(body.val, "message") THEN ": " \o PyStr(Lookup(body.val, "message"))
       ELSE IF isObject /\ HasKey(body.val, "error") THEN ": " \o PyStr(Lookup(body.val, "error"))
       ELSE IF ~body.ok THEN ": " \o text
       ELSE ""

\* C4: for a 4xx or 5xx response the message is the range label followed by
\* the suffix of the appension rule: ": <message>" when the parsed body has a
\* message field (also when it has an error field too), else ": <error>" when
\* it has an error field, else ": <raw text>" when the body is not JSON, and
\* nothing when the body is JSON with neither field.
C4_AppensionRule ==
    (ActionDone /\ Responded /\ 400 <= post_outcome.status_code
                /\ post_outcome.status_code <= 599) =>
        LET c == post_outcome.status_code
            label == IF c <= 499 THEN "Client error" ELSE "Server error"
        IN ErrorText = label \o " (HTTP " \o ToString(c) \o ")" \o C4_Suffix(post_outcome.text)

FailurePrefixes == {"Connection error:", "Request timeout:", "Request error:", "Unexpected error:"}

\* C5: every call that ends in one of the four failure handlers, i.e. whose
\* message begins "Connection error:", "Request timeout:", "Request error:" or
\* "Unexpected error:", returns status_code = null and success = false.
C5_FailureHasNoStatus ==
    (ActionDone /\ \E p \in FailurePrefixes : StartsWith(ErrorText, p)) =>
        /\ action_result.value.status_code = None
        /\ action_result.value.success = FALSE

\* the timeout the call uses: the caller's value, or 30 when none was supplied
C6_ResolvedTimeout == IF timeout = None THEN "30" ELSE ToString(timeout.n)

\* C6: for every exception of the POST that is a requests Timeout (subclasses
\* included) the message starts with "Request timeout:" and contains the
\* resolved timeout value, with status_code = null and success = false.
C6_TimeoutReported ==
    (ActionDone /\ PostFailed /\ IsInstance(post_outcome.exc, "Timeout")) =>
        /\ StartsWith(ErrorText, "Request timeout:")
        /\ Contains(ErrorText, "timed out after " \o C6_ResolvedTimeout \o " seconds")
        /\ action_result.value.status_code = None
        /\ action_result.value.success = FALSE

\* C7: every call issues at most one POST, and exactly one when the endpoint
\* and the payload pass validation, whatever the outcome of that POST.
C7_SinglePost ==
    ActionDone =>
        /\ Len(action_result.posts) <= 1
        /\ (EndpointOk /\ PayloadOk) => Len(action_result.posts) = 1
        /\ ~(EndpointOk /\ PayloadOk) => Len(action_result.posts) = 0

\* a POST that timed out while reading was issued once and not sent again
C7_Witness ==
    /\ ActionDone /\ PostFailed
    /\ post_outcome.exc = "ReadTimeout"
    /\ Len(action_result.posts) = 1
    /\ action_result.posts[1].url = api_endpoint

Populated(v) == v /= None

\* C8, as stated: in every result exactly one of error_message and
\* response_data is populated (non-null).
C8_ExactlyOnePopulated ==
    ActionDone =>
        (Populated(action_result.value.error_message)
            /= Populated(action_result.value.response_data))

\* C8, amended: error_message is populated exactly in the results with
\* success = false, and response_data is populated only in results that carry
\* a status code, i.e. when a response was received.
C8_ErrorIffFailure ==
    ActionDone =>
        /\ action_result.value.success = ~Populated(action_result.value.error_message)
        /\ Populated(action_result.value.response_data) =>
              Populated(action_result.value.status_code)

\* an error response with a JSON body populated both fields
C8_Witness ==
    /\ ActionDone /\ Responded
    /\ post_outcome.status_code = 404
    /\ Populated(action_result.value.error_message)
    /\ Populated(action_result.value.response_data)
    /\ action_result.value.success = FALSE

(***************************************************************************)
(* Properties of MusicGeneratorTool._run, under SpecMusic                  *)
(***************************************************************************)
MusicDone == music_result.state /= "pending"

MusicAnswered == MusicDone /\ ~music_outcome.raises

\* the JSON text of a one-field error object whose detail needs no escaping
ErrorObject(detail) == "{\"error\": \"" \o detail \o "\"}"

HasToolResponse(raw) ==
    LET doc == JsonLoads(raw)
    IN /\ doc.ok /\ doc.val.t = "dict"
       /\ HasKey(doc.val, "tool_invocation")
       /\ Lookup(doc.val, "tool_invocation").t = "dict"
       /\ HasKey(Lookup(doc.val, "tool_invocation"), "tool_response")
       /\ Truthy(Lookup(Lookup(doc.val, "tool_invocation"), "tool_response"))

ToolResponseOf(raw) == Lookup(Lookup(JsonLoads(raw).val, "tool_invocation"), "tool_response")

\* C10: the history is append-only.  A capture appends exactly one entry, the
\* string form of tool_response, when raw is a JSON object with a present and
\* truthy tool_invocation.tool_response, and otherwise leaves the history
\* unchanged; either way it returns.  An inject leaves the history unchanged
\* and writes into inputs the JSON encoding of the whole history in order.
C10_AppendOnly ==
    [][ /\ crew_call'.op = "capture" =>
              /\ crew_call'.state = "returned"
              /\ IF HasToolResponse(crew_call'.raw)
                   THEN strudel_history' =
                            Append(strudel_history, PyStr(ToolResponseOf(crew_call'.raw)))
                   ELSE strudel_history' = strudel_history
        /\ crew_call'.op = "inject" =>
              /\ strudel_history' = strudel_history
              /\ HasKey(inputs', "current_strudel_code")
              /\ Lookup(inputs', "current_strudel_code")
                     = PyStrVal(JsonDumpsStrList(strudel_history))
      ]_vars

\* two captures, then a kickoff that was handed both entries in append order
C10_Witness ==
    /\ crew_call.op = "inject"
    /\ strudel_history = <<"say \"hi\"", "{'code': 'bd'}">>
    /\ Lookup(inputs, "current_strudel_code").s = "[\"say \\\"hi\\\"\", \"{'code': 'bd'}\"]"

====
